---- MODULE Spec2Model ----
(***************************************************************************)
(* Model of the strong-stock screener in src/app.py: the sidebar inputs,   *)
(* the per-symbol pipeline get_stock_data -> calculate_indicators ->       *)
(* criteria 1-5 -> strong_stocks.append, and the final banner.             *)
(*                                                                         *)
(* Numbers are exact rationals [n, d] with d > 0, kept in lowest terms;    *)
(* NaN is the record with d = 0.  Python floats are idealised as exact     *)
(* arithmetic; the raw Close/Volume observations are integers.             *)
(* get_stock_data is cached per ticker and date range, so within a run a   *)
(* ticker always fetches the same thing: market maps a ticker to it.       *)
(***************************************************************************)
EXTENDS Integers, Sequences, FiniteSets, TLC

\* ------------------------------------------------------------------ bounds
\* longest universe drawn by InitOrch
MaxUniverse == 3
\* series lengths above the required 121 drawn by InitFilter
ExtraDays == 1

\* --------------------------------------------------------- exact numbers
NaN == [n |-> 0, d |-> 0]
\* a local name the script has not assigned yet
Unbound == [n |-> 0, d |-> -1]

Abs(x) == IF x < 0 THEN -x ELSE x

RECURSIVE GCD(_, _)
GCD(a, b) == IF b = 0 THEN a ELSE GCD(b, a % b)

Norm(n, d) ==
    LET g == GCD(Abs(n), Abs(d))
        s == IF d < 0 THEN -1 ELSE 1
    IN  [n |-> s * (n \div g), d |-> s * (d \div g)]

R(x) == [n |-> x, d |-> 1]

isna(v) == v.d = 0

\* float arithmetic: NaN propagates
Sub(a, b) == IF isna(a) \/ isna(b) THEN NaN
             ELSE Norm(a.n * b.d - b.n * a.d, a.d * b.d)
Div(a, b) == IF isna(a) \/ isna(b) THEN NaN
             ELSE Norm(a.n * b.d, a.d * b.n)
Mul(a, b) == IF isna(a) \/ isna(b) THEN NaN
             ELSE Norm(a.n * b.n, a.d * b.d)

\* float comparison: every ordered comparison with NaN is False, NaN != x is True
Lt(a, b) == IF isna(a) \/ isna(b) THEN FALSE ELSE a.n * b.d < b.n * a.d
NotEq(a, b) == IF isna(a) \/ isna(b) THEN TRUE ELSE a # b

\* ------------------------------------------------------- pandas helpers
Max(a, b) == IF a > b THEN a ELSE b

\* s[lo] + ... + s[hi], by halves
RECURSIVE SumSeq(_, _, _)
SumSeq(s, lo, hi) ==
    IF lo > hi THEN 0
    ELSE IF lo = hi THEN s[lo]
    ELSE LET mid == (lo + hi) \div 2
         IN  SumSeq(s, lo, mid) + SumSeq(s, mid + 1, hi)

\* Series.mean(): NaN on an empty selection
mean(s) == IF s = <<>> THEN NaN ELSE Norm(SumSeq(s, 1, Len(s)), Len(s))

\* s.iloc[-k:] : the last k rows, or all of them when there are fewer
iloc_tail(s, k) == SubSeq(s, Max(0, Len(s) - k) + 1, Len(s))

\* s.iloc[-a:-b] with a > b > 0 : slice bounds are clipped at the start
iloc_slice(s, a, b) == SubSeq(s, Max(0, Len(s) - a) + 1, Max(0, Len(s) - b))

\* s.rolling(window=w).mean() at the last row: NaN until w rows exist
rolling_mean_last(s, w) == IF Len(s) < w THEN NaN ELSE mean(iloc_tail(s, w))

\* f"{x:.2f}" as an integer number of hundredths (round half to even), "N/A" as NaN
Round(v, scale) ==
    LET q == (v.n * scale) \div v.d
        r == (v.n * scale) - q * v.d
    IN  IF 2 * r < v.d THEN q
        ELSE IF 2 * r > v.d THEN q + 1
        ELSE IF q % 2 = 0 THEN q ELSE q + 1

Fmt2(v) == IF isna(v) THEN "N/A" ELSE ToString(Round(v, 100))
Fmt0(v) == IF isna(v) THEN "nan" ELSE ToString(Round(v, 1))

\* -------------------------------------------------------- configuration
\* default_stocks
Symbols == {"2330.TW", "2454.TW", "2303.TW", "2317.TW", "2603.TW",
            "2609.TW", "2881.TW", "2882.TW", "2884.TW", "1101.TW"}

\* period_days_map; the keys stand for the 1, 3 and 6 month options
period_days_map == [m1 |-> 20, m3 |-> 60, m6 |-> 120]
PricePeriods == {"m1", "m3", "m6"}
VolumePeriods == {"m1", "m3"}

PeriodValues == {period_days_map[k] : k \in DOMAIN period_days_map}
MaxOf(S) == CHOOSE x \in S : \A y \in S : y <= x
MinOf(S) == CHOOSE x \in S : \A y \in S : x <= y

\* the shortest period taken where the longest is meant
min_required_days == MinOf(PeriodValues) + 1
\* max_required_days = max(period_days_map.values()) + 1
max_required_days == MaxOf(PeriodValues) + 1

avg_volume_period_days == 20
LotSize == 1000

\* ------------------------------------------------------------ market data
\* What yf.download gives for a ticker: an exception, an empty frame, or a
\* frame of len rows.  Close is base, then recent over the last 20 rows, and
\* last on the final row; Volume is vbase, then vrecent over the last 20 rows.
Profile(kind, len, base, recent, last, vbase, vrecent) ==
    [kind |-> kind, len |-> len, base |-> base, recent |-> recent,
     last |-> last, vbase |-> vbase, vrecent |-> vrecent]

Raises == Profile("raise", 0, 0, 0, 0, 0, 0)
Empty == Profile("empty", 0, 0, 0, 0, 0, 0)
Rows(len, base, recent, last, vbase, vrecent) ==
    Profile("rows", len, base, recent, last, vbase, vrecent)

None == [kind |-> "None", Close |-> <<>>, Volume |-> <<>>,
         MA20 |-> NaN, MA60 |-> NaN, MA120 |-> NaN]

\* an exception travelling up the call stack instead of a returned value
Exception == [None EXCEPT !.kind = "Exception"]

yf_download(p) ==
    IF p.kind = "raise" THEN Exception
    ELSE [kind |-> "DataFrame",
          Close |-> [j \in 1..p.len |->
                       IF j = p.len THEN p.last
                       ELSE IF j > p.len - 20 THEN p.recent ELSE p.base],
          Volume |-> [j \in 1..p.len |->
                       IF j > p.len - 20 THEN p.vrecent ELSE p.vbase],
          MA20 |-> NaN, MA60 |-> NaN, MA120 |-> NaN]

empty(d) == Len(d.Close) = 0
is_none_or_empty(d) == d.kind = "None" \/ empty(d)

\* get_stock_data without its try/except: the exception reaches the caller
get_stock_data_uncaught(p) ==
    LET data == yf_download(p)
    IN  IF data.kind = "Exception" THEN Exception
        ELSE IF empty(data) THEN None
        ELSE data

\* get_stock_data: None on an exception or an empty frame
get_stock_data(p) ==
    LET data == yf_download(p)
    IN  IF data.kind = "Exception" THEN None
        ELSE IF empty(data) THEN None
        ELSE data

\* calculate_indicators: None for no data, else the frame with the three MAs
\* (only the last row of each rolling mean is ever read)
calculate_indicators(d) ==
    IF is_none_or_empty(d) THEN None
    ELSE [d EXCEPT !.MA20 = rolling_mean_last(d.Close, 20),
                   !.MA60 = rolling_mean_last(d.Close, 60),
                   !.MA120 = rolling_mean_last(d.Close, 120)]

\* the comparison turned round
not_shorter(d, n) == Len(d.Close) >= n
\* the length guard left out
no_length_guard(d, n) == FALSE
\* len(df) < n
too_short(d, n) == Len(d.Close) < n

\* df.iloc[-1]
iloc_last(d) == [Close |-> R(d.Close[Len(d.Close)]),
                 MA20 |-> d.MA20, MA60 |-> d.MA60, MA120 |-> d.MA120]
NoRow == [Close |-> Unbound, MA20 |-> Unbound, MA60 |-> Unbound, MA120 |-> Unbound]

\* ------------------------------------------------------------------ state
VARIABLES
    stock_symbols,            \* the parsed ticker list
    market,                   \* ticker -> what yf.download gives for it
    min_price, min_volume,
    price_change_period, price_change_threshold,
    volume_change_period, volume_change_threshold,
    ma20_check, ma60_check, ma120_check,
    pc,                       \* position of the script
    i,                        \* symbols the for loop has taken (Python's i + 1)
    symbol, df, latest_data,
    avg_volume, price_change_pct, volume_change_pct,
    strong_stocks,
    banner,                   \* the closing st.warning / st.success
    trail,                    \* per finished iteration: where it left the body
    closes, windowConfig,     \* the arguments of a classifyTrend call
    tpc,                      \* position of that call
    fit,                      \* its regression over the window
    trend                     \* its TrendResult

trend_vars == <<closes, windowConfig, tpc, fit, trend>>
inputs == <<stock_symbols, market, min_price, min_volume,
            price_change_period, price_change_threshold,
            volume_change_period, volume_change_threshold,
            ma20_check, ma60_check, ma120_check, trend_vars>>
locals == <<avg_volume, price_change_pct, volume_change_pct>>
vars == <<inputs, pc, i, symbol, df, latest_data, locals, strong_stocks, banner, trail>>

\* ---------------------------------------------------------------- criteria
\* a forgotten "continue": the body runs on into its next step
fall_through(at) ==
    /\ pc' = [fetch |-> "calc", calc |-> "len", len |-> "c1", c1 |-> "c2", c2 |-> "c3",
              c3 |-> "c4", c4 |-> "c5", c5 |-> "append"][at]
    /\ UNCHANGED trail

\* the "continue" statements: back to the loop head, leaving a trail entry
Leave(at) ==
    /\ pc' = "for"
    /\ trail' = Append(trail, [symbol |-> symbol, at |-> at, row |-> FALSE])

\* line 119
below_min_price(row) == Lt(row.Close, R(min_price))

\* line 128
trailing_avg_volume(d) ==
    Div(mean(iloc_tail(d.Volume, avg_volume_period_days)), R(LotSize))

\* the zero check dropped: x / 0 in float arithmetic of a pandas scalar is inf or NaN
percent_change_unguarded(current, start) ==
    IF start = R(0) THEN NaN ELSE Mul(Div(Sub(current, start), start), R(100))

\* lines 141-146; the reference row exists whenever this is evaluated
percent_change(current, start) ==
    IF NotEq(start, R(0)) THEN Mul(Div(Sub(current, start), start), R(100)) ELSE R(0)

\* s.iloc[k] for a negative k
iloc_at(s, k) == R(s[Len(s) + k + 1])

\* the previous window taken as iloc[-2*days:], overlapping the current one
volume_change_overlapping(d, days) ==
    LET current_period_avg_volume == mean(iloc_tail(d.Volume, days))
        previous_period_avg_volume == mean(iloc_tail(d.Volume, 2 * days))
    IN  percent_change(current_period_avg_volume, previous_period_avg_volume)

\* lines 159-163
volume_change(d, days) ==
    LET current_period_avg_volume == mean(iloc_tail(d.Volume, days))
        previous_period_avg_volume == mean(iloc_slice(d.Volume, 2 * days, days))
    IN  percent_change(current_period_avg_volume, previous_period_avg_volume)

\* any one enabled average under the price is enough
ma_conditions_any(row) ==
    \/ ~(ma20_check \/ ma60_check \/ ma120_check)
    \/ ma20_check /\ ~(isna(row.MA20) \/ Lt(row.Close, row.MA20))
    \/ ma60_check /\ ~(isna(row.MA60) \/ Lt(row.Close, row.MA60))
    \/ ma120_check /\ ~(isna(row.MA120) \/ Lt(row.Close, row.MA120))

\* lines 169-176
ma_conditions_met(row) ==
    /\ ~(ma20_check /\ (isna(row.MA20) \/ Lt(row.Close, row.MA20)))
    /\ ~(ma60_check /\ (isna(row.MA60) \/ Lt(row.Close, row.MA60)))
    /\ ~(ma120_check /\ (isna(row.MA120) \/ Lt(row.Close, row.MA120)))

\* lines 182-191: the row as the strings the f-strings produce
result_row ==
    [symbol |-> symbol,
     close |-> Fmt2(latest_data.Close),
     price_change |-> Fmt2(price_change_pct),
     volume_change |-> Fmt2(volume_change_pct),
     ma20 |-> Fmt2(latest_data.MA20),
     ma60 |-> Fmt2(latest_data.MA60),
     ma120 |-> Fmt2(latest_data.MA120),
     avg_volume |-> Fmt0(avg_volume)]

push_front(rows, row) == <<row>> \o rows
\* list.append
append(rows, row) == Append(rows, row)

\* ----------------------------------------------------------------- actions
\* line 85-86: nothing to screen
WarnEmpty ==
    /\ pc = "start" /\ stock_symbols = <<>>
    /\ banner' = "enter_symbol"
    /\ pc' = "end"
    /\ UNCHANGED <<inputs, i, symbol, df, latest_data, locals, strong_stocks, trail>>

\* lines 89-93: the button is clicked
ButtonClick ==
    /\ pc = "start" /\ stock_symbols # <<>>
    /\ strong_stocks' = <<>>
    /\ i' = 0
    /\ pc' = "for"
    /\ UNCHANGED <<inputs, symbol, df, latest_data, locals, banner, trail>>

\* lines 98-104: take the next symbol and fetch it
Fetch ==
    /\ pc = "for" /\ i < Len(stock_symbols)
    /\ LET taken == stock_symbols[i + 1]
           got == get_stock_data(market[taken])
       IN  /\ i' = i + 1
           /\ symbol' = taken
           /\ df' = got
           /\ IF got.kind = "Exception"
              THEN pc' = "crashed" /\ UNCHANGED trail
              ELSE IF is_none_or_empty(got)
              THEN /\ pc' = "for"
                   /\ trail' = Append(trail, [symbol |-> taken, at |-> "fetch", row |-> FALSE])
              ELSE pc' = "calc" /\ UNCHANGED trail
    /\ UNCHANGED <<inputs, latest_data, locals, strong_stocks, banner>>

\* lines 106-108
Indicators ==
    /\ pc = "calc"
    /\ LET got == calculate_indicators(df)
       IN  /\ df' = got
           /\ IF is_none_or_empty(got) THEN Leave("calc") ELSE pc' = "len" /\ UNCHANGED trail
    /\ UNCHANGED <<inputs, i, symbol, latest_data, locals, strong_stocks, banner>>

\* lines 111-116
HistoryCheck ==
    /\ pc = "len"
    /\ IF too_short(df, max_required_days)
       THEN Leave("len") /\ UNCHANGED latest_data
       ELSE /\ latest_data' = iloc_last(df)
            /\ pc' = "c1"
            /\ UNCHANGED trail
    /\ UNCHANGED <<inputs, i, symbol, df, locals, strong_stocks, banner>>

\* lines 119-120
Criterion1 ==
    /\ pc = "c1"
    /\ IF below_min_price(latest_data) THEN Leave("c1") ELSE pc' = "c2" /\ UNCHANGED trail
    /\ UNCHANGED <<inputs, i, symbol, df, latest_data, locals, strong_stocks, banner>>

\* lines 123-130
Criterion2 ==
    /\ pc = "c2"
    /\ IF too_short(df, avg_volume_period_days)
       THEN Leave("c2") /\ UNCHANGED avg_volume
       ELSE LET got == trailing_avg_volume(df)
            IN  /\ avg_volume' = got
                /\ IF Lt(got, R(min_volume))
                   THEN Leave("c2")
                   ELSE pc' = "c3" /\ UNCHANGED trail
    /\ UNCHANGED <<inputs, i, symbol, df, latest_data, price_change_pct,
                   volume_change_pct, strong_stocks, banner>>

\* lines 133-149
Criterion3 ==
    /\ pc = "c3"
    /\ LET price_period_days == period_days_map[price_change_period]
           start_price_idx == -price_period_days - 1
       IN  IF too_short(df, price_period_days + 1)
           THEN Leave("c3") /\ UNCHANGED price_change_pct
           ELSE IF Abs(start_price_idx) > Len(df.Close)
           THEN Leave("c3") /\ UNCHANGED price_change_pct
           ELSE LET start_price == iloc_at(df.Close, start_price_idx)
                    current_price == latest_data.Close
                    got == percent_change(current_price, start_price)
                IN  /\ price_change_pct' = got
                    /\ IF Lt(got, R(price_change_threshold))
                       THEN Leave("c3")
                       ELSE pc' = "c4" /\ UNCHANGED trail
    /\ UNCHANGED <<inputs, i, symbol, df, latest_data, avg_volume,
                   volume_change_pct, strong_stocks, banner>>

\* lines 152-166
Criterion4 ==
    /\ pc = "c4"
    /\ LET volume_period_days == period_days_map[volume_change_period]
       IN  IF too_short(df, volume_period_days * 2 + 1)
           THEN Leave("c4") /\ UNCHANGED volume_change_pct
           ELSE LET got == volume_change(df, volume_period_days)
                IN  /\ volume_change_pct' = got
                    /\ IF Lt(got, R(volume_change_threshold))
                       THEN Leave("c4")
                       ELSE pc' = "c5" /\ UNCHANGED trail
    /\ UNCHANGED <<inputs, i, symbol, df, latest_data, avg_volume,
                   price_change_pct, strong_stocks, banner>>

\* lines 169-179
Criterion5 ==
    /\ pc = "c5"
    /\ IF ~ma_conditions_met(latest_data) THEN Leave("c5") ELSE pc' = "append" /\ UNCHANGED trail
    /\ UNCHANGED <<inputs, i, symbol, df, latest_data, locals, strong_stocks, banner>>

\* lines 182-191
AppendRow ==
    /\ pc = "append"
    /\ strong_stocks' = append(strong_stocks, result_row)
    /\ pc' = "for"
    /\ trail' = Append(trail, [symbol |-> symbol, at |-> "append", row |-> TRUE])
    /\ UNCHANGED <<inputs, i, symbol, df, latest_data, locals, banner>>

\* lines 193-210: the loop is exhausted
Finish ==
    /\ pc = "for" /\ i = Len(stock_symbols)
    /\ banner' = IF strong_stocks # <<>> THEN "success" ELSE "none_found"
    /\ pc' = "end"
    /\ UNCHANGED <<inputs, i, symbol, df, latest_data, locals, strong_stocks, trail>>

\* ------------------------------------------------------------ classifyTrend
\* The trend classifier of the intraday variant, after section 4.2 of the
\* design.  Closes are positive.
NoFit == [slope |-> NaN, strength |-> NaN, r2 |-> NaN, lastClose |-> NaN, windowMean |-> NaN]
NoTrend == [direction |-> "", lastPrice |-> NaN, windowMean |-> NaN,
            strength |-> NaN, r2 |-> NaN]

\* the bar taken as 60 whatever the window
min_observations_fixed(cfg) == 60
\* rule 1: fewer than max(60, 0.6 * windowSize) observations
min_observations(cfg) == Max(60, (6 * cfg.windowSize + 9) \div 10)
insufficient(q, cfg) == Len(q) < min_observations(cfg)

\* sum of f over x = 0 .. n-1 with y = w[x + 1], by halves
RECURSIVE SumXY(_, _, _, _, _)
SumXY(w, lo, hi, px, py) ==
    IF lo > hi THEN 0
    ELSE IF lo = hi
         THEN (IF px = 0 THEN 1 ELSE IF px = 1 THEN lo - 1 ELSE (lo - 1) * (lo - 1))
              * (IF py = 0 THEN 1 ELSE IF py = 1 THEN w[lo] ELSE w[lo] * w[lo])
    ELSE LET mid == (lo + hi) \div 2
         IN  SumXY(w, lo, mid, px, py) + SumXY(w, mid + 1, hi, px, py)

\* R2 = 1 - RSS / TSS = Sxy^2 / (Sxx * Syy) for the least-squares line, 0 on a flat series
r_squared(sxy, sxx, syy) ==
    IF syy = 0 THEN R(0) ELSE Mul(Norm(sxy, sxx), Norm(sxy, syy))

\* the least-squares line over the trailing window, x the 0-based index
linear_fit(q, cfg) ==
    LET w == iloc_tail(q, cfg.windowSize)
        n == Len(w)
        sx == SumXY(w, 1, n, 1, 0)
        sy == SumXY(w, 1, n, 0, 1)
        sxy == n * SumXY(w, 1, n, 1, 1) - sx * sy
        sxx == n * SumXY(w, 1, n, 2, 0) - sx * sx
        syy == n * SumXY(w, 1, n, 0, 2) - sy * sy
        slope == Norm(sxy, sxx)
        windowMean == Norm(sy, n)
    IN  [slope |-> slope,
         strength |-> Div(Mul(slope, R(cfg.windowSize)), windowMean),
         r2 |-> r_squared(sxy, sxx, syy),
         lastClose |-> R(w[n]),
         windowMean |-> windowMean]

Le(a, b) == ~Lt(b, a)
Neg(a) == [a EXCEPT !.n = -a.n]

\* rules 2-4, in this order
direction_of(f, cfg) ==
    IF /\ Le(cfg.strengthThreshold, f.strength)
       /\ Lt(f.windowMean, f.lastClose)
       /\ Le(cfg.r2Threshold, f.r2)
    THEN "Up"
    ELSE IF /\ Le(f.strength, Neg(cfg.strengthThreshold))
            /\ Lt(f.lastClose, f.windowMean)
            /\ Le(cfg.r2Threshold, f.r2)
    THEN "Down"
    ELSE "Ranging"

\* rule 1: too few observations, best-effort fields
TrendInsufficient ==
    /\ tpc = "called" /\ insufficient(closes, windowConfig)
    /\ trend' = [direction |-> "Insufficient",
                 lastPrice |-> IF closes = <<>> THEN R(0) ELSE R(closes[Len(closes)]),
                 windowMean |-> IF closes = <<>> THEN R(0)
                                ELSE mean(iloc_tail(closes, windowConfig.windowSize)),
                 strength |-> R(0), r2 |-> R(0)]
    /\ tpc' = "returned"
    /\ UNCHANGED <<stock_symbols, market, min_price, min_volume, price_change_period,
                   price_change_threshold, volume_change_period, volume_change_threshold,
                   ma20_check, ma60_check, ma120_check, closes, windowConfig, fit,
                   pc, i, symbol, df, latest_data, locals, strong_stocks, banner, trail>>

TrendFit ==
    /\ tpc = "called" /\ ~insufficient(closes, windowConfig)
    /\ fit' = linear_fit(closes, windowConfig)
    /\ tpc' = "fitted"
    /\ UNCHANGED <<stock_symbols, market, min_price, min_volume, price_change_period,
                   price_change_threshold, volume_change_period, volume_change_threshold,
                   ma20_check, ma60_check, ma120_check, closes, windowConfig, trend,
                   pc, i, symbol, df, latest_data, locals, strong_stocks, banner, trail>>

TrendClassify ==
    /\ tpc = "fitted"
    /\ trend' = [direction |-> direction_of(fit, windowConfig),
                 lastPrice |-> fit.lastClose, windowMean |-> fit.windowMean,
                 strength |-> fit.strength, r2 |-> fit.r2]
    /\ tpc' = "returned"
    /\ UNCHANGED <<stock_symbols, market, min_price, min_volume, price_change_period,
                   price_change_threshold, volume_change_period, volume_change_threshold,
                   ma20_check, ma60_check, ma120_check, closes, windowConfig, fit,
                   pc, i, symbol, df, latest_data, locals, strong_stocks, banner, trail>>

NextTrend ==
    \/ TrendInsufficient
    \/ TrendFit
    \/ TrendClassify

Next ==
    \/ WarnEmpty
    \/ ButtonClick
    \/ Fetch
    \/ Indicators
    \/ HistoryCheck
    \/ Criterion1
    \/ Criterion2
    \/ Criterion3
    \/ Criterion4
    \/ Criterion5
    \/ AppendRow
    \/ Finish

\* ------------------------------------------------------------------- inputs
\* the script before the button: nothing of the loop is bound yet
Fresh ==
    /\ pc = "start"
    /\ i = 0
    /\ symbol = ""
    /\ df = None
    /\ latest_data = NoRow
    /\ avg_volume = Unbound
    /\ price_change_pct = Unbound
    /\ volume_change_pct = Unbound
    /\ strong_stocks = <<>>
    /\ banner = ""
    /\ trail = <<>>

\* no classifyTrend call in progress
TrendIdle ==
    /\ closes = <<>>
    /\ windowConfig = [windowSize |-> 300, strengthThreshold |-> R(0), r2Threshold |-> R(0)]
    /\ tpc = "idle"
    /\ fit = NoFit
    /\ trend = NoTrend

\* the widgets' default values, lines 58-79
Defaults ==
    /\ min_price = 20
    /\ min_volume = 1000
    /\ price_change_period = "m3"
    /\ price_change_threshold = 10
    /\ volume_change_period = "m1"
    /\ volume_change_threshold = 0
    /\ ma20_check = TRUE
    /\ ma60_check = TRUE
    /\ ma120_check = FALSE

\* one ticker per kind of fetch outcome and per place the defaults reject at
Market ==
    [s \in Symbols |->
        CASE s = "2330.TW" -> Rows(121, 20, 20, 22, 1000000, 1000000)
          [] s = "2454.TW" -> Raises
          [] s = "2303.TW" -> Empty
          [] s = "2317.TW" -> Rows(120, 20, 20, 22, 1000000, 1000000)
          [] s = "2603.TW" -> Rows(121, 20, 20, 10, 1000000, 1000000)
          [] s = "2609.TW" -> Rows(121, 20, 20, 22, 1000000, 0)
          [] s = "2881.TW" -> Rows(121, 30, 30, 31, 1000000, 1000000)
          [] s = "2882.TW" -> Rows(121, 20, 20, 22, 2000000, 1000000)
          [] s = "2884.TW" -> Rows(121, 20, 30, 22, 1000000, 1000000)
          [] s = "1101.TW" -> Rows(122, 30, 30, 33, 1000000, 2000000)]

RECURSIVE SeqsUpTo(_, _)
SeqsUpTo(S, n) ==
    IF n = 0 THEN {<<>>}
    ELSE LET shorter == SeqsUpTo(S, n - 1)
         IN  shorter \cup {Append(q, x) : q \in {t \in shorter : Len(t) = n - 1}, x \in S}

\* every ticker list of up to MaxUniverse entries, repeats allowed, default inputs
InitOrch ==
    /\ stock_symbols \in SeqsUpTo(Symbols, MaxUniverse)
    /\ market = Market
    /\ Defaults
    /\ Fresh
    /\ TrendIdle

Lens == {20, 61, 120} \cup (max_required_days .. max_required_days + ExtraDays)
CloseShapes == {<<b, r, l>> : b \in {0, 20, 30}, r \in {20, 30}, l \in {10, 22}}
VolumeShapes == {<<0, 1000000>>, <<1000000, 1000000>>, <<1000000, 2000000>>,
                 <<1000000, 0>>}
Series == {Rows(n, c[1], c[2], c[3], v[1], v[2]) :
             n \in Lens, c \in CloseShapes, v \in VolumeShapes}

\* one ticker, every series shape against every setting of the criteria
InitFilter ==
    /\ stock_symbols = <<"2330.TW">>
    /\ \E p \in Series : market = [Market EXCEPT !["2330.TW"] = p]
    /\ min_price = 20
    /\ min_volume = 1000
    /\ price_change_period \in PricePeriods
    /\ price_change_threshold \in {-50, 0, 10}
    /\ volume_change_period \in VolumePeriods
    /\ volume_change_threshold \in {0, 10}
    /\ ma20_check \in BOOLEAN /\ ma60_check \in BOOLEAN /\ ma120_check \in BOOLEAN
    /\ Fresh
    /\ TrendIdle

\* close series for the classifier: flat, straight up, straight down, a zigzag,
\* a step up, a rise that ends on a drop, a fall that ends on a jump
TrendShapes == {"flat", "up", "down", "zigzag", "step", "spike", "rally"}
TrendSeries(shape, n) ==
    [j \in 1..n |->
        CASE shape = "flat" -> 100
          [] shape = "up" -> 100 + j
          [] shape = "down" -> 300 - j
          [] shape = "zigzag" -> 100 + 20 * (j % 2)
          [] shape = "step" -> IF 2 * j <= n THEN 100 ELSE 150
          [] shape = "spike" -> IF j = n THEN 50 ELSE 100 + j
          [] shape = "rally" -> IF j = n THEN 400 ELSE 300 - j]
TrendLens == {0, 59, 60, 71, 72} \cup (120 .. 120 + ExtraDays)

\* one classifyTrend call on every series, window and pair of thresholds
InitTrend ==
    /\ stock_symbols = <<>> /\ market = Market /\ Defaults /\ Fresh
    /\ \E shape \in TrendShapes, n \in TrendLens : closes = TrendSeries(shape, n)
    /\ \E ws \in {60, 100, 120}, st \in {R(0), Norm(1, 50), Norm(1, 2)},
          rt \in {R(0), Norm(3, 10), R(1)} :
          windowConfig = [windowSize |-> ws, strengthThreshold |-> st, r2Threshold |-> rt]
    /\ tpc = "called"
    /\ fit = NoFit
    /\ trend = NoTrend

Spec == InitOrch /\ [][Next]_vars
SpecTrend == InitTrend /\ [][NextTrend]_vars
SpecFilter == (InitFilter \/ (InitOrch /\ stock_symbols = <<>>)) /\ [][Next]_vars

\* ------------------------------------------------- what the criteria mean
\* The five criteria stated directly on the observations of ticker s, in
\* integer arithmetic, independently of the script's step-by-step evaluation.
NRows(s) == IF market[s].kind = "rows" THEN market[s].len ELSE 0
HasData(s) == NRows(s) > 0
CloseOf(s) == yf_download(market[s]).Close
VolumeOf(s) == yf_download(market[s]).Volume
LastClose(s) == CloseOf(s)[NRows(s)]
SumLast(q, k) == SumSeq(q, Len(q) - k + 1, Len(q))
PriceDays == period_days_map[price_change_period]
VolumeDays == period_days_map[volume_change_period]
EnabledMAs == (IF ma20_check THEN {20} ELSE {}) \cup (IF ma60_check THEN {60} ELSE {})
              \cup (IF ma120_check THEN {120} ELSE {})

PriceFloorOK(s) == LastClose(s) >= min_price
AvgVolumeOK(s) ==
    /\ NRows(s) >= 20
    /\ SumLast(VolumeOf(s), 20) >= min_volume * 20 * 1000
PriceChangeDefined(s) == NRows(s) >= PriceDays + 1
RefClose(s) == CloseOf(s)[NRows(s) - PriceDays]
PriceChangeOK(s) ==
    /\ PriceChangeDefined(s)
    /\ IF RefClose(s) = 0 THEN 0 >= price_change_threshold
       ELSE (LastClose(s) - RefClose(s)) * 100 >= price_change_threshold * RefClose(s)
VolumeChangeDefined(s) == NRows(s) >= 2 * VolumeDays + 1
RecentVolume(s) == SumSeq(VolumeOf(s), NRows(s) - VolumeDays + 1, NRows(s))
PrecedingVolume(s) ==
    SumSeq(VolumeOf(s), NRows(s) - 2 * VolumeDays + 1, NRows(s) - VolumeDays)
VolumeChangeOK(s) ==
    /\ VolumeChangeDefined(s)
    /\ IF PrecedingVolume(s) = 0 THEN 0 >= volume_change_threshold
       ELSE LET q == Norm(RecentVolume(s) - PrecedingVolume(s), PrecedingVolume(s))
            IN  q.n * 100 >= volume_change_threshold * q.d
MADefined(s, w) == NRows(s) >= w
MAOK(s, w) == MADefined(s, w) /\ LastClose(s) * w >= SumLast(CloseOf(s), w)
AllMAsOK(s) == \A w \in EnabledMAs : MAOK(s, w)

AllCriteriaOK(s) ==
    /\ HasData(s)
    /\ PriceFloorOK(s) /\ AvgVolumeOK(s) /\ PriceChangeOK(s)
    /\ VolumeChangeOK(s) /\ AllMAsOK(s)
Qualifies(s) == HasData(s) /\ NRows(s) >= 121 /\ AllCriteriaOK(s)

RowSymbols == [k \in 1..Len(strong_stocks) |-> strong_stocks[k].symbol]
TrailSymbols == [k \in 1..Len(trail) |-> trail[k].symbol]

RECURSIVE Qualifying(_)
Qualifying(q) ==
    IF q = <<>> THEN <<>>
    ELSE (IF Qualifies(Head(q)) THEN <<Head(q)>> ELSE <<>>) \o Qualifying(Tail(q))

RemoveAt(q, k) == SubSeq(q, 1, k - 1) \o SubSeq(q, k + 1, Len(q))

\* ------------------------------------------------------------------ claims

\* the rows map, in order, into the symbols taken so far
RowsFollowInputOrder ==
    \E f \in [1..Len(strong_stocks) -> 1..i] :
        /\ \A a, b \in 1..Len(strong_stocks) : a < b => f[a] < f[b]
        /\ \A a \in 1..Len(strong_stocks) : strong_stocks[a].symbol = stock_symbols[f[a]]
\* a step leaves the rows alone or adds one row for the current symbol at the end
RowsOnlyAppended ==
    \/ strong_stocks' = strong_stocks
    \/ /\ Len(strong_stocks') = Len(strong_stocks) + 1
       /\ SubSeq(strong_stocks', 1, Len(strong_stocks)) = strong_stocks
       /\ strong_stocks'[Len(strong_stocks')].symbol = symbol

\* C1: at every point of a run the rows are an order-preserving subsequence of
\* the symbols taken so far, and a step either leaves the rows alone or
\* appends one row for the current symbol at the end.
C1_InputOrderKept == [](i <= Len(stock_symbols) /\ RowsFollowInputOrder) /\ [][RowsOnlyAppended]_vars

\* two passing tickers around a failing fetch: both rows, in input order
C1_Witness ==
    /\ pc = "end"
    /\ stock_symbols = <<"1101.TW", "2454.TW", "2330.TW">>
    /\ RowSymbols = <<"1101.TW", "2330.TW">>

\* positions of the tickers whose fetch raises or comes back empty
FailingPositions == {k \in 1..Len(stock_symbols) : ~HasData(stock_symbols[k])}
RunOutcomeIsolated ==
    /\ i = Len(stock_symbols)
    /\ TrailSymbols = stock_symbols
    /\ \A k \in FailingPositions : trail[k].at = "fetch" /\ ~trail[k].row
    /\ \A k \in 1..Len(strong_stocks) : HasData(strong_stocks[k].symbol)
    /\ RowSymbols = Qualifying(stock_symbols)
    /\ \A k \in FailingPositions : RowSymbols = Qualifying(RemoveAt(stock_symbols, k))
\* steps the script can still take: every step lowers it, so a run is finite
StepsLeft ==
    10 * (Len(stock_symbols) - i) +
    CASE pc = "start" -> 1
      [] pc = "for" -> 0
      [] pc = "calc" -> 8
      [] pc = "len" -> 7
      [] pc = "c1" -> 6
      [] pc = "c2" -> 5
      [] pc = "c3" -> 4
      [] pc = "c4" -> 3
      [] pc = "c5" -> 2
      [] pc = "append" -> 1
      [] OTHER -> -1

C3_RowIffAllCriteria ==
    /\ \A k \in 1..Len(strong_stocks) : AllCriteriaOK(strong_stocks[k].symbol)
    /\ pc = "end" =>
         \A k \in 1..Len(stock_symbols) :
            Qualifies(stock_symbols[k]) =>
               \E r \in 1..Len(strong_stocks) : strong_stocks[r].symbol = stock_symbols[k]

\* a row won on the longest windows with every average enabled
C3_Witness ==
    /\ pc = "end" /\ Len(strong_stocks) = 1
    /\ price_change_period = "m6" /\ volume_change_period = "m3"
    /\ price_change_threshold = 10 /\ volume_change_threshold = 10
    /\ ma20_check /\ ma60_check /\ ma120_check

\* the longest history any enabled criterion needs
RequiredByEnabled == MaxOf({PriceDays + 1, 2 * VolumeDays + 1} \cup EnabledMAs)
SkippedForHistory(k) == trail[k].at = "len"
ReachedFilter(k) == trail[k].at \in {"c1", "c2", "c3", "c4", "c5", "append"}

\* C4 as claimed: a ticker with data is skipped for history exactly when its
\* series is shorter than the enabled criteria need.
C4_SkipDependsOnEnabled ==
    \A k \in 1..Len(trail) :
       HasData(trail[k].symbol) =>
          (SkippedForHistory(k) <=> NRows(trail[k].symbol) < RequiredByEnabled)

\* C4 amended: the history skip does not look at the criteria: a ticker with
\* data is skipped exactly when it has fewer than 121 rows, which is never less
\* than the enabled criteria need, and otherwise it reaches criterion 1.
C4_SkipBelow121 ==
    /\ RequiredByEnabled <= 121
    /\ \A k \in 1..Len(trail) :
          HasData(trail[k].symbol) =>
             /\ SkippedForHistory(k) <=> NRows(trail[k].symbol) < 121
             /\ ReachedFilter(k) <=> NRows(trail[k].symbol) >= 121

\* 61 rows are enough for one-month windows and the 20 and 60 day averages, and skipped
C4_Witness ==
    /\ Len(trail) = 1 /\ SkippedForHistory(1)
    /\ NRows(trail[1].symbol) = 61
    /\ RequiredByEnabled = 60
    /\ ma60_check

\* some indicator the criteria use lacks the rows it needs
UndefinedIndicator(s) ==
    \/ ~PriceChangeDefined(s)
    \/ ~VolumeChangeDefined(s)
    \/ \E w \in EnabledMAs : ~MADefined(s, w)

\* C5: a ticker for which the price change, the volume change or an enabled
\* moving average is undefined for lack of rows gets no row, and no row shows
\* an undefined change or an undefined enabled average.
C5_UndefinedFailsClosed ==
    /\ \A k \in 1..Len(trail) :
          HasData(trail[k].symbol) /\ UndefinedIndicator(trail[k].symbol) => ~trail[k].row
    /\ \A k \in 1..Len(strong_stocks) :
          /\ ~UndefinedIndicator(strong_stocks[k].symbol)
          /\ strong_stocks[k].price_change # "N/A"
          /\ strong_stocks[k].volume_change # "N/A"
          /\ ma20_check => strong_stocks[k].ma20 # "N/A"
          /\ ma60_check => strong_stocks[k].ma60 # "N/A"
          /\ ma120_check => strong_stocks[k].ma120 # "N/A"

\* 61 rows: the one-month price change is defined, the three-month volume change is not
C5_Witness ==
    /\ pc = "end" /\ Len(trail) = 1
    /\ NRows(trail[1].symbol) = 61
    /\ PriceChangeDefined(trail[1].symbol)
    /\ ~VolumeChangeDefined(trail[1].symbol)
    /\ volume_change_threshold = 0
    /\ ~trail[1].row /\ strong_stocks = <<>>

\* C6: at criterion 5 the ticker goes on to its row exactly when every enabled
\* average is defined and not above the close; otherwise it is rejected there.
\* Averages that are not enabled play no part, and with none enabled it passes.
C6_MAsConjunctive ==
    [][pc = "c5" =>
         IF AllMAsOK(symbol)
         THEN pc' = "append" /\ UNCHANGED <<strong_stocks, trail>>
         ELSE /\ pc' = "for" /\ strong_stocks' = strong_stocks
              /\ trail' = Append(trail, [symbol |-> symbol, at |-> "c5", row |-> FALSE])]_vars

\* all three enabled, exactly one of them above the close: rejected at criterion 5
C6_Witness ==
    /\ Len(trail) = 1 /\ trail[1].at = "c5"
    /\ EnabledMAs = {20, 60, 120}
    /\ Cardinality({w \in EnabledMAs : ~MAOK(trail[1].symbol, w)}) = 1

Times100(q) == Norm(q.n * 100, q.d)
RejectedAt(at) == trail # <<>> /\ trail[Len(trail)].at = at

\* C7: the price change the script computes is (last - ref) / ref * 100 for a
\* non-zero reference close and 0 for a zero one; the volume change follows the
\* same rule on the two adjacent window means, and is 0 for a constant volume;
\* with a zero reference the run goes on and the criterion rejects exactly
\* when its threshold is above 0.
C7_ZeroReference ==
    /\ pc # "crashed"
    /\ price_change_pct # Unbound =>
          /\ price_change_pct =
                IF RefClose(symbol) = 0 THEN R(0)
                ELSE Norm((LastClose(symbol) - RefClose(symbol)) * 100, RefClose(symbol))
          /\ RefClose(symbol) = 0 => (RejectedAt("c3") <=> price_change_threshold > 0)
    /\ volume_change_pct # Unbound =>
          /\ volume_change_pct =
                IF PrecedingVolume(symbol) = 0 THEN R(0)
                ELSE Times100(Norm(RecentVolume(symbol) - PrecedingVolume(symbol),
                                   PrecedingVolume(symbol)))
          /\ market[symbol].vbase = market[symbol].vrecent => volume_change_pct = R(0)
          /\ PrecedingVolume(symbol) = 0 => (RejectedAt("c4") <=> volume_change_threshold > 0)

\* both references are zero, both thresholds are 0, and the ticker gets its row
C7_Witness ==
    /\ pc = "end" /\ Len(strong_stocks) = 1
    /\ RefClose(symbol) = 0 /\ PrecedingVolume(symbol) = 0
    /\ price_change_pct = R(0) /\ volume_change_pct = R(0)
    /\ price_change_threshold = 0 /\ volume_change_threshold = 0

\* criterion by step of the script
CriterionSteps == {"c1", "c2", "c3", "c4", "c5"}
CriterionOK(at, s) ==
    CASE at = "c1" -> PriceFloorOK(s)
      [] at = "c2" -> AvgVolumeOK(s)
      [] at = "c3" -> PriceChangeOK(s)
      [] at = "c4" -> VolumeChangeOK(s)
      [] at = "c5" -> AllMAsOK(s)
StepAfter == [c1 |-> "c2", c2 |-> "c3", c3 |-> "c4", c4 |-> "c5", c5 |-> "append"]
StepBefore == [c1 |-> "len", c2 |-> "c1", c3 |-> "c2", c4 |-> "c3", c5 |-> "c4",
               append |-> "c5"]

\* C8 as claimed: what a rejection leaves behind tells which criterion failed
\* first: two rejections with the same visible outcome failed the same criterion.
C8_OutcomeNamesCriterion ==
    \A a, b \in 1..Len(trail) :
       /\ trail[a].at \in CriterionSteps /\ trail[b].at \in CriterionSteps
       /\ trail[a].row = trail[b].row
       => trail[a].at = trail[b].at

\* C8 amended: the criteria are evaluated in the order 1 to 5, each only after
\* the one before it held, and the first that fails sends the script to the
\* next symbol with no later criterion evaluated; the rejection is silent: it
\* leaves the rows and the banner as they were, whichever criterion failed.
C8_FixedOrderShortCircuit ==
    [][/\ pc \in CriterionSteps =>
            IF CriterionOK(pc, symbol)
            THEN pc' = StepAfter[pc] /\ UNCHANGED <<strong_stocks, banner, trail>>
            ELSE /\ pc' = "for"
                 /\ UNCHANGED <<strong_stocks, banner, i, symbol>>
                 /\ trail' = Append(trail, [symbol |-> symbol, at |-> pc, row |-> FALSE])
       /\ pc' \in DOMAIN StepBefore => pc = StepBefore[pc']]_vars

\* three tickers rejected at three different criteria, nothing to tell them apart
C8_Witness ==
    /\ pc = "end"
    /\ [k \in 1..Len(trail) |-> trail[k].at] = <<"c1", "c3", "c5">>
    /\ strong_stocks = <<>>
    /\ banner = "none_found"

FilterSteps == CriterionSteps \cup {"append"}

\* C10: whatever the criteria, a ticker at any of the criteria has at least
\* 121 rows and all three averages defined; a rejection at criteria 2 to 4 is
\* by the threshold, never by a length guard; every row shows all three averages.
C10_FilterSeesFullHistory ==
    /\ pc \in FilterSteps =>
          /\ Len(df.Close) >= 121
          /\ ~isna(latest_data.MA20) /\ ~isna(latest_data.MA60) /\ ~isna(latest_data.MA120)
    /\ \A k \in 1..Len(trail) :
          /\ ReachedFilter(k) => NRows(trail[k].symbol) >= 121
          /\ trail[k].at = "c2" => NRows(trail[k].symbol) >= 20
          /\ trail[k].at = "c3" => PriceChangeDefined(trail[k].symbol)
          /\ trail[k].at = "c4" => VolumeChangeDefined(trail[k].symbol)
    /\ \A k \in 1..Len(strong_stocks) :
          /\ strong_stocks[k].ma20 # "N/A"
          /\ strong_stocks[k].ma60 # "N/A"
          /\ strong_stocks[k].ma120 # "N/A"

\* shortest windows, no average enabled: the row still carries all three averages
C10_Witness ==
    /\ pc = "end" /\ Len(strong_stocks) = 1
    /\ price_change_period = "m1" /\ volume_change_period = "m1"
    /\ EnabledMAs = {}
    /\ NRows(strong_stocks[1].symbol) = 121
    /\ strong_stocks[1].ma120 # "N/A"

\* the rules of the classifier read off its result
MeetsBar == 10 * Len(closes) >= 600 /\ 10 * Len(closes) >= 6 * windowConfig.windowSize
UpTest ==
    /\ Le(windowConfig.strengthThreshold, trend.strength)
    /\ Lt(trend.windowMean, trend.lastPrice)
    /\ Le(windowConfig.r2Threshold, trend.r2)
DownTest ==
    /\ Le(trend.strength, Neg(windowConfig.strengthThreshold))
    /\ Lt(trend.lastPrice, trend.windowMean)
    /\ Le(windowConfig.r2Threshold, trend.r2)
IsFlat == \A j \in 1..Len(closes) : closes[j] = closes[1]

\* C9: classifyTrend returns one of the four directions: Insufficient exactly
\* when fewer than max(60, 0.6 * windowSize) closes are given; otherwise Up
\* when the Up test holds, else Down when the Down test holds, else Ranging;
\* the Up and Down tests never hold together; a flat series that meets the bar
\* has strength 0, R2 0 and is Ranging.
C9_OneDirectionInOrder ==
    tpc = "returned" =>
       /\ trend.direction \in {"Insufficient", "Up", "Down", "Ranging"}
       /\ trend.direction = "Insufficient" <=> ~MeetsBar
       /\ MeetsBar =>
             /\ trend.direction = "Up" <=> UpTest
             /\ trend.direction = "Down" <=> ~UpTest /\ DownTest
             /\ trend.direction = "Ranging" <=> ~UpTest /\ ~DownTest
             /\ ~(UpTest /\ DownTest)
             /\ IsFlat => /\ trend.strength = R(0) /\ trend.r2 = R(0)
                          /\ trend.direction = "Ranging"

\* a flat series that meets a bar above 60 comes back Ranging with zero thresholds
C9_Witness ==
    /\ tpc = "returned"
    /\ IsFlat /\ Len(closes) = 72 /\ windowConfig.windowSize = 120
    /\ windowConfig.strengthThreshold = R(0) /\ windowConfig.r2Threshold = R(0)
    /\ trend.direction = "Ranging"

====
